---- MODULE Spec2Model ----
(***************************************************************************)
(* Stream replication of dynamodb-adapter.                                 *)
(*                                                                         *)
(* Pull path: dynamo.Streamer (streamreplication/dynamo/stream.go) with    *)
(* its two goroutines, fetchShardsCron and processShardsCron, the          *)
(* replicator listener (streamreplication/replicator.go) and the Stop()    *)
(* of DynamoStreamerReplicator.                                            *)
(* Push path: spanner.Streamer.Stream, the pubsub Receive callback, with   *)
(* the spannerreplicator listener.                                         *)
(* The DynamoDB stream client, the pubsub subscription and the target      *)
(* adapter are the environment.                                            *)
(***************************************************************************)
EXTENDS Integers, Sequences, FiniteSets, TLC

\* ------------------------------------------------------------------ bounds
\* records held by every shard of the source stream
NumRecs == 2
\* largest number of records one GetRecords page returns
MaxPage == 2
\* shards returned by one DescribeStream page
TopoPage == 1
\* messages published on the push subscription
NumMsgs == 2
\* deliveries of the push subscription looked at; a message that was nacked
\* may be delivered again
MaxDeliveries == 2

\* ------------------------------------------------------- program constants
\* stream.go:211  if nilForCount == 5
YieldThreshold == 5
\* spanner.Streamer.Stream: sub.ReceiveSettings.MaxOutstandingMessages = 1
MaxOutstandingMessages == 1

Nil == "nil"
TableName == "table"

\* a Go pointer or map lookup that may be absent: {} is nil, {x} points to x
None == {}
Some(x) == {x}
Val(o) == CHOOSE x \in o : TRUE

\* ------------------------------------------------ the source stream (env)
ShardIds == {"A", "B"}
\* the order DescribeStream lists the shards in
ShardOrder == <<"A", "B">>
\* the shard trees of the stream: B split off A
Topologies == {[s \in ShardIds |-> IF s = "B" THEN "A" ELSE Nil]}
\* two shards open at once, neither the parent of the other
Siblings == [s \in ShardIds |-> Nil]
\* B split off a shard that the stream no longer lists
Orphan == [s \in ShardIds |-> IF s = "B" THEN "Z" ELSE Nil]
LiveTopologies == Topologies \cup {Siblings, Orphan}

EventNames == <<"INSERT", "MODIFY", "REMOVE">>
ShardIndex(s) == CHOOSE i \in 1..Len(ShardOrder) : ShardOrder[i] = s

\* ds.Record: sequence numbers are opaque strings that grow along the shard
SeqNum(i) == 100 * i
Record(s, i) ==
  [shard |-> s,
   SequenceNumber |-> SeqNum(i),
   EventName |-> EventNames[((ShardIndex(s) + i) % 3) + 1],
   NewImage |-> <<s, i, "new">>,
   OldImage |-> <<s, i, "old">>]

\* GetShardIterator: the position (number of records before the iterator)
\* TRIM_HORIZON: the oldest record; AFTER_SEQUENCE_NUMBER: right after the
\* record with that sequence number
IteratorPosition(kind, seq) ==
  IF kind = "TRIM_HORIZON" THEN 0
  ELSE Cardinality({i \in 1..NumRecs : SeqNum(i) <= seq})

\* a page that lists its records newest first
PageOf_Reversed(s, pos, k) == [j \in 1..k |-> Record(s, pos + k + 1 - j)]

\* records pos+1 .. pos+k of shard s
PageOf(s, pos, k) == [j \in 1..k |-> Record(s, pos + j)]

\* DescribeStream(ExclusiveStartShardId): the shards after the cursor, at
\* most TopoPage of them
TopoStart(cursor) == IF cursor = Nil THEN 0 ELSE ShardIndex(cursor)
TopoShards(cursor) ==
  LET from == TopoStart(cursor)
      n == IF Len(ShardOrder) - from < TopoPage THEN Len(ShardOrder) - from ELSE TopoPage
  IN [j \in 1..n |-> ShardOrder[from + j]]
TopoLastEvaluated(cursor) ==
  LET from == TopoStart(cursor)
  IN IF from + TopoPage < Len(ShardOrder) THEN ShardOrder[from + TopoPage] ELSE Nil

\* Stream.Checkpoint of a stream definition: both fields null, or a shard and
\* the sequence number of one of its records
Checkpoints ==
  {[LastShardID |-> Nil, LastSequenceNumber |-> Nil]} \cup
  {[LastShardID |-> s, LastSequenceNumber |-> SeqNum(i)] :
     s \in ShardIds, i \in 1..NumRecs}

\* ------------------------------------------------------ the configuration
\* the longest config.Streams
MaxStreams == 3
\* STREAM_TYPE_DYNAMO, STREAM_TYPE_SPANNER
StreamTypes == {"dynamo", "spanner"}
\* Stream: the fields the orchestrator looks at
Streams == [Enabled : BOOLEAN, Type : StreamTypes]
\* StreamsConfig.Streams
Configs == UNION {[1..n -> Streams] : n \in 0..MaxStreams}

\* ------------------------------------------- the push subscription (env)
\* a pubsub message: whether its payload decodes, and the event name in it
Messages ==
  {[decodes |-> TRUE, EventName |-> n] : n \in {"INSERT", "MODIFY", "REMOVE", "UNKNOWN"}}
    \cup {[decodes |-> FALSE, EventName |-> ""]}
\* the deliveries of the subscription, numbered in the order they are made
Deliveries == 1..MaxDeliveries

VARIABLES
  \* the kind of stream instance the orchestrator started: "pull" or "push"
  mode,
  \* shard.ParentShardId of every shard of the stream
  ParentShardId,
  \* dynamo.Streamer
  stop, allShards, inProcessShards, processedShards, shardSequenceNumbers,
  \* replicator
  rstop,
  \* DynamoStreamerReplicator.Stop progress: 0 not called, 1 after
  \* StopReplication, 2 after StopStreaming
  stopPc,
  \* processShardsCron goroutine
  pc, todo, cur, lastSequenceId, currentShardIterator, nilForCount,
  records, pageLen, nextShardIterator,
  \* fetchShardsCron goroutine
  rpc, lastEvaluatedShardId, shards, outLastEvaluated,
  \* observation of the calls made: the last GetShardIteratorInput; per shard,
  \* the sequence numbers handed to the listener and the adapter calls made for
  \* them; the records GetRecords returned; the shards GetRecords returned a
  \* nil NextShardIterator for; in the processShard call under way, the empty
  \* pages in a row and the records handed to the listener
  iterReq, dispatched, calls, fetched, nullSeen, emptyRun, dispatchedInCall,
  \* the promotions, GetShardIterator calls, GetRecords calls and listener
  \* calls made by the consumer goroutine with stop set
  sinceStop,
  \* the calls that returned an error: "topology", "iterator", "records",
  \* "dispatch"
  failed,
  \* what Stream() returned to Start: {} while it runs; the goroutine that
  \* called Start: "off" while Start runs, then "ended"; whether it has
  \* logged an error
  ret, opc, logged,
  \* the orchestrator: config.Streams; for each of ReplicateDynamoStreams and
  \* ReplicateSpannerStreams the number of definitions it has gone through;
  \* the instances started and the definitions logged as skipped, each with
  \* the position of its definition
  config, oi, started, skipped,
  \* a second instance on the same stream and target: the listener calls it
  \* has made, each with the number of adapter calls the first instance had
  \* made for the shard by then
  twin,
  \* the push subscription: the messages published, the message of every
  \* delivery made so far, the context being cancelled
  msgs, delivered, cancelled,
  \* the Receive callback of every delivery: its position
  ppc,
  \* observation of the push path: per delivery, the Ack, Nack and cancel()
  \* calls of its callback; the deliveries handed to the listener, in order;
  \* the records handed to the listener, the adapter calls made
  acks, nacks, cancels, notified, pushDispatched, pushCalls

vars == <<ParentShardId, stop, allShards, inProcessShards, processedShards, shardSequenceNumbers,
          rstop, stopPc, pc, todo, cur, lastSequenceId, currentShardIterator,
          nilForCount, records, pageLen, nextShardIterator, rpc,
          lastEvaluatedShardId, shards, outLastEvaluated, iterReq, dispatched,
          calls, fetched, nullSeen, emptyRun, dispatchedInCall, mode, msgs,
          delivered, cancelled, ppc, acks, nacks, cancels, notified,
          pushDispatched, pushCalls, sinceStop, failed, ret, logged, config,
          opc, oi, started, skipped, twin>>

orchVars == <<config, oi, started, skipped>>
endVars == <<ret, logged, opc, orchVars, twin>>
pushVars == <<msgs, delivered, cancelled, ppc, acks, nacks, cancels, notified,
              pushDispatched, pushCalls>>
streamerVars == <<mode, ParentShardId, stop, allShards, inProcessShards, processedShards, shardSequenceNumbers>>
consumerVars == <<pc, todo, cur, lastSequenceId, currentShardIterator, nilForCount,
                  records, pageLen, nextShardIterator>>
refreshVars == <<rpc, lastEvaluatedShardId, shards, outLastEvaluated>>
callVars == <<emptyRun, dispatchedInCall>>
obsVars == <<iterReq, dispatched, calls, fetched, nullSeen, pushVars>>

\* ProvideStreamer, ProvideReplicator: empty maps, flags false. Stream() starts
\* the two goroutines of a pull instance, or the Receive loop of a push one
ProvideStreamer ==
  /\ mode \in {"pull", "push"}
  /\ twin = <<>>
  /\ stop = FALSE
  /\ allShards = {}
  /\ inProcessShards = {}
  /\ processedShards = {}
  /\ shardSequenceNumbers = {}
  /\ rstop = FALSE
  /\ stopPc = 0
  /\ pc = IF mode = "pull" THEN "cron" ELSE "off"
  /\ todo = {}
  /\ cur = Nil
  /\ lastSequenceId = None
  /\ currentShardIterator = None
  /\ nilForCount = 0
  /\ records = <<>>
  /\ pageLen = 0
  /\ nextShardIterator = None
  /\ rpc = IF mode = "pull" THEN "cron" ELSE "off"
  /\ lastEvaluatedShardId = Nil
  /\ shards = <<>>
  /\ outLastEvaluated = Nil
  /\ iterReq = None
  /\ dispatched = [s \in ShardIds |-> <<>>]
  /\ calls = [s \in ShardIds |-> <<>>]
  /\ fetched = {}
  /\ nullSeen = {}
  /\ emptyRun = 0
  /\ dispatchedInCall = 0
  /\ sinceStop = 0
  /\ failed = {}
  /\ ret = None
  /\ logged = FALSE
  /\ opc = "off"
  /\ \/ mode = "pull" /\ msgs = <<>>
     \/ mode = "push" /\ msgs \in [1..NumMsgs -> Messages]
  /\ delivered = <<>>
  /\ cancelled = FALSE
  /\ ppc = [d \in Deliveries |-> "none"]
  /\ acks = [d \in Deliveries |-> 0]
  /\ nacks = [d \in Deliveries |-> 0]
  /\ cancels = [d \in Deliveries |-> 0]
  /\ notified = <<>>
  /\ pushDispatched = <<>>
  /\ pushCalls = <<>>

\* the orchestrator is left out
NoOrchestrator ==
  /\ config = <<>>
  /\ oi = [f \in StreamTypes |-> 0]
  /\ started = {}
  /\ skipped = {}

\* one stream instance
Init ==
  /\ ProvideStreamer
  /\ ParentShardId \in Topologies
  /\ NoOrchestrator

\* ---------------------------------------------------------- the replicator
\* spannerService.PutItem(Meta{TableName, Item}) and the error it returned
PutItem(record, putOk) ==
  [op |-> "PutItem", table |-> TableName, item |-> record.NewImage, err |-> ~putOk]

\* replicator.insert: one PutItem of the new image; its error is the put's
insert(record, putOk) == [calls |-> <<PutItem(record, putOk)>>, err |-> ~putOk]

\* replicator.modify: put item instead of update
modify(record, putOk) == [calls |-> <<PutItem(record, putOk)>>, err |-> ~putOk]

\* a remove that deletes the item from the target
remove_Delete(record, putOk) ==
  [calls |-> <<[op |-> "DeleteItem", table |-> TableName, item |-> record.OldImage,
                err |-> ~putOk]>>,
   err |-> ~putOk]

\* a remove that reports the delete it does not make as an error
remove_Unsupported(record, putOk) == [calls |-> <<>>, err |-> TRUE]

\* replicator.remove: only logs
remove(record, putOk) == [calls |-> <<>>, err |-> FALSE]

\* r.opMap[*record.EventName](record), with opMap as ProvideReplicator
\* registers it; any other name looks up a nil func, and calling it panics
opMap(name, record, putOk) ==
  CASE name = "INSERT" -> insert(record, putOk)
    [] name = "MODIFY" -> modify(record, putOk)
    [] name = "REMOVE" -> remove(record, putOk)
    [] OTHER -> [calls |-> <<>>, err |-> TRUE]

\* a listener that does not ask the streamer to stop on its error
ReplicateRecord_LogOnError(record, putOk) ==
  LET r == opMap(record.EventName, record, putOk)
  IN [stopOnError |-> FALSE, err |-> r.err, calls |-> r.calls]

\* replicator.ReplicateRecord: (stopOnError, err) and the adapter calls made
ReplicateRecord(record, putOk) ==
  IF rstop
    THEN [stopOnError |-> TRUE, err |-> FALSE, calls |-> <<>>]
    ELSE LET r == opMap(record.EventName, record, putOk)
         IN [stopOnError |-> TRUE, err |-> r.err, calls |-> r.calls]

\* a notifyListener that logs every listener error and goes on
notifyListener_LogOnly(record, putOk) ==
  [err |-> FALSE, calls |-> ReplicateRecord(record, putOk).calls]

\* Streamer.notifyListener with the one listener AddRecordListener added:
\* an error is returned only when the listener asks to stop on it
notifyListener(record, putOk) ==
  LET r == ReplicateRecord(record, putOk)
  IN [err |-> r.err /\ r.stopOnError, calls |-> r.calls]

\* what is observed of one listener call: the record and the error returned
Dispatch(record, err) ==
  [SequenceNumber |-> record.SequenceNumber, EventName |-> record.EventName,
   NewImage |-> record.NewImage, err |-> err]

\* ------------------------------------------------ the checkpoint map
HasSequenceNumber(s) == \E e \in shardSequenceNumbers : e[1] = s
SequenceNumberOf(s) == (CHOOSE e \in shardSequenceNumbers : e[1] = s)[2]
\* a sequence number update that is lost
SetSequenceNumber_Lost(s, seq) == shardSequenceNumbers
\* a sequence number stored under the id of the parent of the shard
SetSequenceNumber_ParentKey(s, seq) ==
  {e \in shardSequenceNumbers : e[1] # ParentShardId[s]} \cup {<<ParentShardId[s], seq>>}

\* r.shardSequenceNumbers[s] = seq
SetSequenceNumber(s, seq) ==
  {e \in shardSequenceNumbers : e[1] # s} \cup {<<s, seq>>}

\* ------------------------------------------- processShardsCron goroutine
\* a cron whose loop does not look at stop
ProcessShardsCron_Forever ==
  /\ pc = "cron"
  /\ pc' = "pass"
  /\ UNCHANGED <<sinceStop, failed, endVars, streamerVars, rstop, stopPc, todo, cur, lastSequenceId,
                 currentShardIterator, nilForCount, records, pageLen,
                 nextShardIterator, refreshVars, obsVars, callVars>>

\* processShardsCron: for !r.stop { <-timer; processShards() }
ProcessShardsCron ==
  /\ pc = "cron"
  /\ pc' = IF stop THEN "done" ELSE "pass"
  /\ UNCHANGED <<sinceStop, failed, endVars, streamerVars, rstop, stopPc, todo, cur, lastSequenceId,
                 currentShardIterator, nilForCount, records, pageLen,
                 nextShardIterator, refreshVars, obsVars, callVars>>

\* processShards: for !r.stop { for _, shard := range r.allShards ...
ProcessShardsPass ==
  /\ pc = "pass"
  /\ IF stop
       THEN pc' = "cron" /\ todo' = todo
       ELSE pc' = "promote" /\ todo' = allShards
  /\ UNCHANGED <<sinceStop, failed, endVars, streamerVars, rstop, stopPc, cur, lastSequenceId,
                 currentShardIterator, nilForCount, records, pageLen,
                 nextShardIterator, refreshVars, obsVars, callVars>>

\* the promotion rule without the look at the parent
CanPromote_IgnoreParent(s) == ~stop

\* the promotion rule of processShards (lines 114-120)
CanPromote(s) ==
  /\ ~stop
  /\ \/ ParentShardId[s] = Nil
     \/ ParentShardId[s] \in processedShards

\* one iteration of the range over allShards: lines 114-120, the look at stop
\* and at the parent
PromoteShard ==
  /\ pc = "promote"
  /\ \E s \in todo :
       /\ todo' = todo \ {s}
       /\ IF CanPromote(s)
            THEN cur' = s /\ pc' = "promote_insert"
            ELSE UNCHANGED <<cur, pc>>
  /\ UNCHANGED <<sinceStop, failed, endVars, streamerVars, rstop, stopPc, lastSequenceId, currentShardIterator,
                 nilForCount, records, pageLen, nextShardIterator, refreshVars,
                 obsVars, callVars>>

\* line 122: r.inProcessShards[*shard.ShardId] = shard
PromoteInsert ==
  /\ pc = "promote_insert"
  /\ inProcessShards' = inProcessShards \cup {cur}
  /\ pc' = "promote_delete"
  /\ sinceStop' = IF stop THEN sinceStop + 1 ELSE sinceStop
  /\ UNCHANGED <<failed, endVars, mode, ParentShardId, stop, allShards, processedShards, shardSequenceNumbers, rstop,
                 stopPc, todo, cur, lastSequenceId, currentShardIterator, nilForCount,
                 records, pageLen, nextShardIterator, refreshVars, obsVars, callVars>>

\* delete(r.allShards, *shard.ShardId)
PromoteDelete ==
  /\ pc = "promote_delete"
  /\ allShards' = allShards \ {cur}
  /\ pc' = "promote"
  /\ UNCHANGED <<sinceStop, failed, endVars, mode, ParentShardId, stop, inProcessShards, processedShards, shardSequenceNumbers,
                 rstop, stopPc, todo, cur, lastSequenceId, currentShardIterator,
                 nilForCount, records, pageLen, nextShardIterator, refreshVars,
                 obsVars, callVars>>

\* the range over allShards is over: for _, shard := range r.inProcessShards
PromoteEnd ==
  /\ pc = "promote"
  /\ todo = {}
  /\ todo' = inProcessShards
  /\ pc' = "consume"
  /\ UNCHANGED <<sinceStop, failed, endVars, streamerVars, rstop, stopPc, cur, lastSequenceId,
                 currentShardIterator, nilForCount, records, pageLen,
                 nextShardIterator, refreshVars, obsVars, callVars>>

\* a processShards that hands no sequence number to processShard
LastSequenceNumber_Nil(s) == None

\* lines 132-136: the last sequence number handed to processShard
LastSequenceNumber(s) ==
  IF HasSequenceNumber(s) THEN Some(SequenceNumberOf(s)) ELSE None

\* one iteration of the range over inProcessShards: call processShard
ConsumeShard ==
  /\ pc = "consume"
  /\ \E s \in todo :
       /\ todo' = todo \ {s}
       /\ IF ~stop
            THEN /\ cur' = s
                 /\ lastSequenceId' = LastSequenceNumber(s)
                 /\ pc' = "getiter"
            ELSE UNCHANGED <<cur, lastSequenceId, pc>>
  /\ UNCHANGED <<sinceStop, failed, endVars, streamerVars, rstop, stopPc, currentShardIterator, nilForCount,
                 records, pageLen, nextShardIterator, refreshVars, obsVars, callVars>>

\* the range over inProcessShards is over: back to for !r.stop
ConsumeEnd ==
  /\ pc = "consume"
  /\ todo = {}
  /\ pc' = "pass"
  /\ UNCHANGED <<sinceStop, failed, endVars, streamerVars, rstop, stopPc, todo, cur, lastSequenceId,
                 currentShardIterator, nilForCount, records, pageLen,
                 nextShardIterator, refreshVars, obsVars, callVars>>

\* a processShard that always iterates the shard from its start
ShardIteratorInput_TrimHorizon(s, lastSeq) ==
  [shard |-> s, kind |-> "TRIM_HORIZON", seq |-> None]

\* processShard lines 183-200: the GetShardIteratorInput
ShardIteratorInput(s, lastSeq) ==
  IF lastSeq = None
    THEN [shard |-> s, kind |-> "TRIM_HORIZON", seq |-> None]
    ELSE [shard |-> s, kind |-> "AFTER_SEQUENCE_NUMBER", seq |-> lastSeq]

\* processShard lines 202-209: GetShardIterator, which may fail
GetShardIterator ==
  /\ pc = "getiter"
  /\ LET in == ShardIteratorInput(cur, lastSequenceId) IN
       /\ iterReq' = Some(in)
       /\ \/ /\ pc' = "error"
             /\ failed' = failed \cup {"iterator"}
             /\ nilForCount' = 0
             /\ UNCHANGED currentShardIterator
          \/ /\ currentShardIterator' =
                  Some(IteratorPosition(in.kind, IF in.seq = None THEN 0 ELSE Val(in.seq)))
             /\ failed' = failed
             /\ nilForCount' = 0
             /\ pc' = "page"
  /\ emptyRun' = 0
  /\ dispatchedInCall' = 0
  /\ sinceStop' = IF stop THEN sinceStop + 1 ELSE sinceStop
  /\ UNCHANGED <<endVars, streamerVars, rstop, stopPc, todo, cur, lastSequenceId, records,
                 pageLen, nextShardIterator, refreshVars, dispatched, calls,
                 fetched, nullSeen, pushVars>>

\* line 210 is false: return true, nil
ShardLoopExit ==
  /\ pc = "page"
  /\ currentShardIterator = None \/ stop
  /\ pc' = "complete"
  /\ UNCHANGED <<sinceStop, failed, endVars, streamerVars, rstop, stopPc, todo, cur, lastSequenceId,
                 currentShardIterator, nilForCount, records, pageLen,
                 nextShardIterator, refreshVars, obsVars, callVars>>

\* lines 211-215: return false, nil
ShardYield ==
  /\ pc = "page"
  /\ currentShardIterator # None /\ ~stop
  /\ nilForCount = YieldThreshold
  /\ pc' = "yielded"
  /\ UNCHANGED <<sinceStop, failed, endVars, streamerVars, rstop, stopPc, todo, cur, lastSequenceId,
                 currentShardIterator, nilForCount, records, pageLen,
                 nextShardIterator, refreshVars, obsVars, callVars>>

\* lines 210-211 let the loop body go on to GetRecords
ShardLoopEnter ==
  /\ pc = "page"
  /\ currentShardIterator # None /\ ~stop
  /\ nilForCount # YieldThreshold
  /\ pc' = "getrecords"
  /\ UNCHANGED <<sinceStop, failed, endVars, streamerVars, rstop, stopPc, todo, cur, lastSequenceId,
                 currentShardIterator, nilForCount, records, pageLen,
                 nextShardIterator, refreshVars, obsVars, callVars>>

\* a GetRecords whose failure is taken for the end of the shard
GetRecords_EndOnError ==
  /\ pc = "getrecords"
  /\ sinceStop' = IF stop THEN sinceStop + 1 ELSE sinceStop
  /\ \/ /\ pc' = "complete"
        /\ failed' = failed \cup {"records"}
        /\ UNCHANGED <<records, pageLen, nextShardIterator, fetched, nullSeen,
                       emptyRun>>
     \/ LET pos == Val(currentShardIterator) IN
        \E k \in 0..MaxPage :
          /\ pos + k <= NumRecs
          /\ failed' = failed
          /\ records' = PageOf(cur, pos, k)
          /\ pageLen' = k
          /\ fetched' = fetched \cup {<<cur, SeqNum(pos + j)>> : j \in 1..k}
          /\ \/ nextShardIterator' = Some(pos + k) /\ nullSeen' = nullSeen
             \/ /\ pos + k = NumRecs
                /\ nextShardIterator' = None
                /\ nullSeen' = nullSeen \cup {cur}
          /\ emptyRun' = IF k = 0 THEN emptyRun + 1 ELSE 0
          /\ pc' = "records"
  /\ UNCHANGED <<endVars, streamerVars, rstop, stopPc, todo, cur, lastSequenceId,
                 currentShardIterator, nilForCount, refreshVars, iterReq,
                 dispatched, calls, dispatchedInCall, pushVars>>

\* lines 216-220: GetRecords, which may fail. The source returns up to
\* MaxPage of the records after the iterator, possibly none, and a next
\* iterator that is nil only at the end of a closed shard
GetRecords ==
  /\ pc = "getrecords"
  /\ sinceStop' = IF stop THEN sinceStop + 1 ELSE sinceStop
  /\ \/ /\ pc' = "error"
        /\ failed' = failed \cup {"records"}
        /\ UNCHANGED <<records, pageLen, nextShardIterator, fetched, nullSeen,
                       emptyRun>>
     \/ LET pos == Val(currentShardIterator) IN
        \E k \in 0..MaxPage :
          /\ pos + k <= NumRecs
          /\ failed' = failed
          /\ records' = PageOf(cur, pos, k)
          /\ pageLen' = k
          /\ fetched' = fetched \cup {<<cur, SeqNum(pos + j)>> : j \in 1..k}
          /\ \/ nextShardIterator' = Some(pos + k) /\ nullSeen' = nullSeen
             \/ /\ pos + k = NumRecs
                /\ nextShardIterator' = None
                /\ nullSeen' = nullSeen \cup {cur}
          /\ emptyRun' = IF k = 0 THEN emptyRun + 1 ELSE 0
          /\ pc' = "records"
  /\ UNCHANGED <<endVars, streamerVars, rstop, stopPc, todo, cur, lastSequenceId,
                 currentShardIterator, nilForCount, refreshVars, iterReq,
                 dispatched, calls, dispatchedInCall, pushVars>>

\* a range over the page that looks at stop only before the page
RecordCheck_NoStop ==
  /\ pc = "records"
  /\ records # <<>>
  /\ records' = records /\ pc' = "notify"
  /\ UNCHANGED <<sinceStop, failed, endVars, streamerVars, rstop, stopPc, todo, cur, lastSequenceId,
                 currentShardIterator, nilForCount, pageLen, nextShardIterator,
                 refreshVars, obsVars, callVars>>

\* lines 222-223: one record of the page; skipped when stop is set
RecordCheck ==
  /\ pc = "records"
  /\ records # <<>>
  /\ IF stop
       THEN records' = Tail(records) /\ pc' = pc
       ELSE records' = records /\ pc' = "notify"
  /\ UNCHANGED <<sinceStop, failed, endVars, streamerVars, rstop, stopPc, todo, cur, lastSequenceId,
                 currentShardIterator, nilForCount, pageLen, nextShardIterator,
                 refreshVars, obsVars, callVars>>

\* lines 224-226: the record is handed to the listeners
NotifyRecord ==
  /\ pc = "notify"
  /\ \E putOk \in BOOLEAN :
       LET rec == Head(records)
           r == notifyListener(rec, putOk)
       IN /\ dispatched' =
               [dispatched EXCEPT ![cur] =
                  Append(@, Dispatch(rec, ReplicateRecord(rec, putOk).err))]
          /\ dispatchedInCall' = dispatchedInCall + 1
          /\ calls' = [calls EXCEPT ![cur] = @ \o r.calls]
          /\ pc' = IF r.err THEN "error" ELSE "sequence"
          /\ failed' = IF r.err THEN failed \cup {"dispatch"} ELSE failed
  /\ sinceStop' = IF stop THEN sinceStop + 1 ELSE sinceStop
  /\ UNCHANGED <<endVars, streamerVars, rstop, stopPc, todo, cur, lastSequenceId,
                 currentShardIterator, nilForCount, records, pageLen,
                 nextShardIterator, refreshVars, iterReq, fetched, nullSeen,
                 emptyRun, pushVars>>

\* line 228: r.shardSequenceNumbers[*shard.ShardId] = *record.Dynamodb.SequenceNumber
UpdateSequenceNumber ==
  /\ pc = "sequence"
  /\ shardSequenceNumbers' = SetSequenceNumber(cur, Head(records).SequenceNumber)
  /\ records' = Tail(records)
  /\ pc' = "records"
  /\ UNCHANGED <<sinceStop, failed, endVars, mode, ParentShardId, stop, allShards, inProcessShards, processedShards, rstop, stopPc,
                 todo, cur, lastSequenceId, currentShardIterator, nilForCount,
                 pageLen, nextShardIterator, refreshVars, obsVars, callVars>>

\* lines 231-234: count an empty page, take the next iterator
PageEnd ==
  /\ pc = "records"
  /\ records = <<>>
  /\ nilForCount' = IF pageLen = 0 THEN nilForCount + 1 ELSE nilForCount
  /\ currentShardIterator' = nextShardIterator
  /\ pc' = "page"
  /\ UNCHANGED <<sinceStop, failed, endVars, streamerVars, rstop, stopPc, todo, cur, lastSequenceId, records,
                 pageLen, nextShardIterator, refreshVars, obsVars, callVars>>

\* a completion that queues the shard again
MoveToProcessed_Requeue ==
  /\ pc = "complete"
  /\ allShards' = allShards \cup {cur}
  /\ pc' = "complete_delete"
  /\ UNCHANGED <<sinceStop, failed, endVars, mode, ParentShardId, stop, inProcessShards, processedShards,
                 shardSequenceNumbers, rstop, stopPc, todo, cur, lastSequenceId,
                 currentShardIterator, nilForCount, records, pageLen,
                 nextShardIterator, refreshVars, obsVars, callVars>>

\* lines 140-142: complete, r.processedShards[*shard.ShardId] = shard
MoveToProcessed ==
  /\ pc = "complete"
  /\ processedShards' = processedShards \cup {cur}
  /\ pc' = "complete_delete"
  /\ UNCHANGED <<sinceStop, failed, endVars, mode, ParentShardId, stop, allShards, inProcessShards, shardSequenceNumbers, rstop,
                 stopPc, todo, cur, lastSequenceId, currentShardIterator,
                 nilForCount, records, pageLen, nextShardIterator, refreshVars,
                 obsVars, callVars>>

\* line 143: delete(r.inProcessShards, *shard.ShardId)
CompleteDelete ==
  /\ pc = "complete_delete"
  /\ inProcessShards' = inProcessShards \ {cur}
  /\ pc' = "consume"
  /\ UNCHANGED <<sinceStop, failed, endVars, mode, ParentShardId, stop, allShards, processedShards, shardSequenceNumbers, rstop,
                 stopPc, todo, cur, lastSequenceId, currentShardIterator,
                 nilForCount, records, pageLen, nextShardIterator, refreshVars,
                 obsVars, callVars>>

\* a scheduler that calls processShard again for the shard that passed control
VoluntaryPass_SameShard ==
  /\ pc = "yielded"
  /\ lastSequenceId' = LastSequenceNumber(cur)
  /\ pc' = "getiter"
  /\ UNCHANGED <<sinceStop, failed, endVars, streamerVars, rstop, stopPc, todo, cur,
                 currentShardIterator, nilForCount, records, pageLen,
                 nextShardIterator, refreshVars, obsVars, callVars>>

\* lines 144-146: the shard passed control, it stays in inProcessShards
VoluntaryPass ==
  /\ pc = "yielded"
  /\ pc' = "consume"
  /\ UNCHANGED <<sinceStop, failed, endVars, streamerVars, rstop, stopPc, todo, cur, lastSequenceId,
                 currentShardIterator, nilForCount, records, pageLen,
                 nextShardIterator, refreshVars, obsVars, callVars>>

\* a cron that ends on the error without setting stop
ProcessShardsError_Quiet ==
  /\ pc = "error"
  /\ pc' = "done"
  /\ UNCHANGED <<sinceStop, failed, endVars, streamerVars, rstop, stopPc, todo, cur,
                 lastSequenceId, currentShardIterator, nilForCount, records, pageLen,
                 nextShardIterator, refreshVars, obsVars, callVars>>

\* line 139 and 160-163: processShards returns the error, the cron sets stop
ProcessShardsError ==
  /\ pc = "error"
  /\ stop' = TRUE
  /\ pc' = "done"
  /\ UNCHANGED <<sinceStop, failed, endVars, mode, ParentShardId, allShards, inProcessShards, processedShards, shardSequenceNumbers,
                 rstop, stopPc, todo, cur, lastSequenceId, currentShardIterator,
                 nilForCount, records, pageLen, nextShardIterator, refreshVars,
                 obsVars, callVars>>

Consumer ==
  \/ ProcessShardsCron \/ ProcessShardsPass
  \/ PromoteShard \/ PromoteInsert \/ PromoteDelete \/ PromoteEnd
  \/ ConsumeShard \/ ConsumeEnd
  \/ GetShardIterator \/ ShardLoopExit \/ ShardYield \/ ShardLoopEnter
  \/ GetRecords \/ RecordCheck \/ NotifyRecord \/ UpdateSequenceNumber \/ PageEnd
  \/ MoveToProcessed \/ CompleteDelete \/ VoluntaryPass \/ ProcessShardsError

\* --------------------------------------------- fetchShardsCron goroutine
\* fetchShardsCron: for !r.stop { <-timer; fetchShards() }
FetchShardsCron ==
  /\ rpc = "cron"
  /\ IF stop
       THEN rpc' = "done" /\ UNCHANGED lastEvaluatedShardId
       ELSE rpc' = "describe" /\ lastEvaluatedShardId' = Nil
  /\ UNCHANGED <<sinceStop, failed, endVars, streamerVars, rstop, stopPc, consumerVars, shards,
                 outLastEvaluated, obsVars, callVars>>

\* fetchShards line 65 is false (stop is set): return nil
FetchShardsStopped ==
  /\ rpc = "describe"
  /\ stop
  /\ rpc' = "cron"
  /\ UNCHANGED <<sinceStop, failed, endVars, streamerVars, rstop, stopPc, consumerVars, lastEvaluatedShardId,
                 shards, outLastEvaluated, obsVars, callVars>>

\* fetchShards lines 66-73: DescribeStream, which may fail
DescribeStream ==
  /\ rpc = "describe"
  /\ ~stop
  /\ \/ /\ rpc' = "error"
        /\ failed' = failed \cup {"topology"}
        /\ UNCHANGED <<shards, outLastEvaluated>>
     \/ /\ shards' = TopoShards(lastEvaluatedShardId)
        /\ failed' = failed
        /\ outLastEvaluated' = TopoLastEvaluated(lastEvaluatedShardId)
        /\ rpc' = "shards"
  /\ UNCHANGED <<sinceStop, endVars, streamerVars, rstop, stopPc, consumerVars, lastEvaluatedShardId,
                 obsVars, callVars>>

\* line 77 with stop set: the rest of the page is not looked at
FetchShardsSkip ==
  /\ rpc = "shards"
  /\ shards # <<>>
  /\ stop
  /\ shards' = <<>>
  /\ UNCHANGED <<sinceStop, failed, endVars, streamerVars, rstop, stopPc, consumerVars, rpc,
                 lastEvaluatedShardId, outLastEvaluated, obsVars, callVars>>

\* line 79: if _, ok := r.allShards[id]; !ok
CheckAllShards ==
  /\ rpc = "shards"
  /\ shards # <<>>
  /\ ~stop
  /\ IF Head(shards) \in allShards
       THEN shards' = Tail(shards) /\ rpc' = rpc
       ELSE shards' = shards /\ rpc' = "check_inprocess"
  /\ UNCHANGED <<sinceStop, failed, endVars, streamerVars, rstop, stopPc, consumerVars, lastEvaluatedShardId,
                 outLastEvaluated, obsVars, callVars>>

\* line 80: if _, ok = r.inProcessShards[id]; !ok
CheckInProcessShards ==
  /\ rpc = "check_inprocess"
  /\ IF Head(shards) \in inProcessShards
       THEN shards' = Tail(shards) /\ rpc' = "shards"
       ELSE shards' = shards /\ rpc' = "check_processed"
  /\ UNCHANGED <<sinceStop, failed, endVars, streamerVars, rstop, stopPc, consumerVars, lastEvaluatedShardId,
                 outLastEvaluated, obsVars, callVars>>

\* a refresh that does not look at processedShards
CheckProcessedShards_Skip ==
  /\ rpc = "check_processed"
  /\ shards' = shards
  /\ rpc' = "add"
  /\ UNCHANGED <<sinceStop, failed, endVars, streamerVars, rstop, stopPc, consumerVars, lastEvaluatedShardId,
                 outLastEvaluated, obsVars, callVars>>

\* line 81: if _, ok = r.processedShards[id]; !ok
CheckProcessedShards ==
  /\ rpc = "check_processed"
  /\ IF Head(shards) \in processedShards
       THEN shards' = Tail(shards) /\ rpc' = "shards"
       ELSE shards' = shards /\ rpc' = "add"
  /\ UNCHANGED <<sinceStop, failed, endVars, streamerVars, rstop, stopPc, consumerVars, lastEvaluatedShardId,
                 outLastEvaluated, obsVars, callVars>>

\* a refresh that starts the new shard itself
AddShard_InProcess ==
  /\ rpc = "add"
  /\ inProcessShards' = inProcessShards \cup {Head(shards)}
  /\ shards' = Tail(shards)
  /\ rpc' = "shards"
  /\ UNCHANGED <<sinceStop, failed, endVars, mode, ParentShardId, stop, allShards, processedShards,
                 shardSequenceNumbers, rstop, stopPc, consumerVars,
                 lastEvaluatedShardId, outLastEvaluated, obsVars, callVars>>

\* line 83: r.allShards[id] = shard. A range over allShards that is under way
\* in the other goroutine may or may not produce the new entry
AddShard ==
  /\ rpc = "add"
  /\ allShards' = allShards \cup {Head(shards)}
  /\ \/ todo' = todo
     \/ /\ pc \in {"promote", "promote_insert", "promote_delete"}
        /\ todo' = todo \cup {Head(shards)}
  /\ shards' = Tail(shards)
  /\ rpc' = "shards"
  /\ UNCHANGED <<sinceStop, failed, endVars, mode, ParentShardId, stop, inProcessShards, processedShards, shardSequenceNumbers,
                 rstop, stopPc, pc, cur, lastSequenceId, currentShardIterator,
                 nilForCount, records, pageLen, nextShardIterator,
                 lastEvaluatedShardId, outLastEvaluated, obsVars, callVars>>

\* lines 89-92: the page is over; a nil LastEvaluatedShardId ends the refresh
FetchPageEnd ==
  /\ rpc = "shards"
  /\ shards = <<>>
  /\ lastEvaluatedShardId' = outLastEvaluated
  /\ rpc' = IF outLastEvaluated = Nil THEN "cron" ELSE "describe"
  /\ UNCHANGED <<sinceStop, failed, endVars, streamerVars, rstop, stopPc, consumerVars, shards,
                 outLastEvaluated, obsVars, callVars>>

\* a cron that asks for the failed page again
FetchShardsError_Retry ==
  /\ rpc = "error"
  /\ rpc' = "describe"
  /\ UNCHANGED <<sinceStop, failed, endVars, streamerVars, rstop, stopPc, consumerVars,
                 lastEvaluatedShardId, shards, outLastEvaluated, obsVars, callVars>>

\* fetchShardsCron lines 104-107: the error is logged and stop is set
FetchShardsError ==
  /\ rpc = "error"
  /\ stop' = TRUE
  /\ rpc' = "done"
  /\ UNCHANGED <<sinceStop, failed, endVars, mode, ParentShardId, allShards, inProcessShards, processedShards, shardSequenceNumbers,
                 rstop, stopPc, consumerVars, lastEvaluatedShardId, shards,
                 outLastEvaluated, obsVars, callVars>>

Refresh ==
  \/ FetchShardsCron \/ FetchShardsStopped \/ DescribeStream \/ FetchShardsSkip
  \/ CheckAllShards \/ CheckInProcessShards \/ CheckProcessedShards \/ AddShard
  \/ FetchPageEnd \/ FetchShardsError

\* ------------------------------------- DynamoStreamerReplicator.Stop
\* d.replicator.StopReplication()
StopReplication ==
  /\ stopPc = 0
  /\ rstop' = TRUE
  /\ stopPc' = 1
  /\ UNCHANGED <<sinceStop, failed, endVars, streamerVars, consumerVars, refreshVars, obsVars, callVars>>

\* d.streamer.StopStreaming()
StopStreaming ==
  /\ stopPc = 1
  /\ stop' = TRUE
  /\ stopPc' = 2
  /\ UNCHANGED <<sinceStop, failed, endVars, mode, ParentShardId, allShards, inProcessShards, processedShards, shardSequenceNumbers,
                 rstop, consumerVars, refreshVars, obsVars, callVars>>

\* ------------------------------------------ spanner.Streamer.Stream
\* the ds.Record built from message i (lines 89-99)
PushRecord(i) ==
  [shard |-> i,
   SequenceNumber |-> i,
   EventName |-> msgs[i].EventName,
   NewImage |-> <<"msg", i, "new">>,
   OldImage |-> <<"msg", i, "old">>]

\* a subscription that lets two messages be outstanding
MaxOutstanding_Two == MaxOutstandingMessages + 1

\* lines 54-55: Synchronous with MaxOutstandingMessages as set by Stream
MaxOutstanding == MaxOutstandingMessages

\* a delivery is outstanding from its delivery to the Ack or Nack of it
Outstanding(d) == ppc[d] \in {"decode", "notify", "ack", "recover"}
\* message i was acked in some delivery
Acked(i) == \E d \in 1..Len(delivered) : delivered[d] = i /\ acks[d] > 0

\* sub.Receive: the subscription hands a message to a new callback while
\* fewer than MaxOutstandingMessages are outstanding and the context is not
\* cancelled. It is a message that is not acked and not outstanding: one not
\* delivered yet, or one that was nacked
Receive ==
  /\ mode = "push"
  /\ ~cancelled
  /\ Cardinality({d \in Deliveries : Outstanding(d)}) < MaxOutstanding
  /\ Len(delivered) < MaxDeliveries
  /\ \E i \in 1..NumMsgs :
       /\ ~Acked(i)
       /\ \A d \in 1..Len(delivered) : Outstanding(d) => delivered[d] # i
       /\ delivered' = Append(delivered, i)
       /\ ppc' = [ppc EXCEPT ![Len(delivered) + 1] = "decode"]
  /\ UNCHANGED <<sinceStop, failed, endVars, streamerVars, rstop, stopPc, consumerVars, refreshVars, iterReq,
                 dispatched, calls, fetched, nullSeen, callVars, msgs,
                 cancelled, acks, nacks, cancels, notified, pushDispatched,
                 pushCalls>>

\* a callback that hands every message to the listeners, decoded or not
Decode_Lenient ==
  /\ \E d \in Deliveries :
       /\ ppc[d] = "decode"
       /\ ppc' = [ppc EXCEPT ![d] = "notify"]
  /\ UNCHANGED <<sinceStop, failed, endVars, streamerVars, rstop, stopPc, consumerVars, refreshVars, iterReq,
                 dispatched, calls, fetched, nullSeen, callVars, msgs, delivered,
                 cancelled, acks, nacks, cancels, notified, pushDispatched,
                 pushCalls>>

\* lines 69-87: json.Unmarshal and the MarshalMap calls panic on failure
Decode ==
  /\ \E d \in Deliveries :
       /\ ppc[d] = "decode"
       /\ ppc' = [ppc EXCEPT ![d] = IF msgs[delivered[d]].decodes THEN "notify"
                                    ELSE "recover"]
  /\ UNCHANGED <<sinceStop, failed, endVars, streamerVars, rstop, stopPc, consumerVars, refreshVars, iterReq,
                 dispatched, calls, fetched, nullSeen, callVars, msgs, delivered,
                 cancelled, acks, nacks, cancels, notified, pushDispatched,
                 pushCalls>>

\* lines 101-102: notifyListener; an error panics
Notify ==
  /\ \E d \in Deliveries, putOk \in BOOLEAN :
       LET rec == PushRecord(delivered[d])
           r == notifyListener(rec, putOk)
       IN /\ ppc[d] = "notify"
          /\ notified' = Append(notified, d)
          /\ pushDispatched' =
               Append(pushDispatched, Dispatch(rec, ReplicateRecord(rec, putOk).err))
          /\ pushCalls' = pushCalls \o r.calls
          /\ ppc' = [ppc EXCEPT ![d] = IF r.err THEN "recover" ELSE "ack"]
  /\ UNCHANGED <<sinceStop, failed, endVars, streamerVars, rstop, stopPc, consumerVars, refreshVars, iterReq,
                 dispatched, calls, fetched, nullSeen, callVars, msgs, delivered,
                 cancelled, acks, nacks, cancels>>

\* line 104: m.Ack(); the callback returns
Ack ==
  /\ \E d \in Deliveries :
       /\ ppc[d] = "ack"
       /\ acks' = [acks EXCEPT ![d] = @ + 1]
       /\ ppc' = [ppc EXCEPT ![d] = "done"]
  /\ UNCHANGED <<sinceStop, failed, endVars, streamerVars, rstop, stopPc, consumerVars, refreshVars, iterReq,
                 dispatched, calls, fetched, nullSeen, callVars, msgs, delivered,
                 cancelled, nacks, cancels, notified, pushDispatched, pushCalls>>

\* a recover that acks the message
RecoverNack_Ack ==
  /\ \E d \in Deliveries :
       /\ ppc[d] = "recover"
       /\ acks' = [acks EXCEPT ![d] = @ + 1]
       /\ ppc' = [ppc EXCEPT ![d] = "cancel"]
  /\ UNCHANGED <<sinceStop, failed, endVars, streamerVars, rstop, stopPc, consumerVars, refreshVars, iterReq,
                 dispatched, calls, fetched, nullSeen, callVars, msgs, delivered,
                 cancelled, nacks, cancels, notified, pushDispatched, pushCalls>>

\* lines 58-62: the deferred recover, m.Nack(); the message is no longer
\* outstanding
RecoverNack ==
  /\ \E d \in Deliveries :
       /\ ppc[d] = "recover"
       /\ nacks' = [nacks EXCEPT ![d] = @ + 1]
       /\ ppc' = [ppc EXCEPT ![d] = "cancel"]
  /\ UNCHANGED <<sinceStop, failed, endVars, streamerVars, rstop, stopPc, consumerVars, refreshVars, iterReq,
                 dispatched, calls, fetched, nullSeen, callVars, msgs, delivered,
                 cancelled, acks, cancels, notified, pushDispatched, pushCalls>>

\* line 63: cancel(); the callback returns
RecoverCancel ==
  /\ \E d \in Deliveries :
       /\ ppc[d] = "cancel"
       /\ cancels' = [cancels EXCEPT ![d] = @ + 1]
       /\ ppc' = [ppc EXCEPT ![d] = "done"]
  /\ cancelled' = TRUE
  /\ UNCHANGED <<sinceStop, failed, endVars, streamerVars, rstop, stopPc, consumerVars, refreshVars, iterReq,
                 dispatched, calls, fetched, nullSeen, callVars, msgs, delivered,
                 acks, nacks, notified, pushDispatched, pushCalls>>

\* ------------------------------------------------ the end of a pull stream
\* dynamo.Streamer.Stream: wg.Wait() is over when both goroutines have
\* ended, and Stream returns nil
StreamReturn ==
  /\ pc = "done" /\ rpc = "done"
  /\ ret = None
  /\ ret' = Some(Nil)
  /\ UNCHANGED <<sinceStop, failed, logged, opc, orchVars, twin, streamerVars,
                 rstop, stopPc, consumerVars, refreshVars, obsVars, callVars>>

\* ReplicateStream: if err := replicator.Start(...); err != nil { LogError }
\* and the goroutine ends
StartReturn ==
  /\ ret # None
  /\ opc = "off"
  /\ logged' = (Val(ret) # Nil)
  /\ opc' = "ended"
  /\ UNCHANGED <<sinceStop, failed, ret, orchVars, twin, streamerVars, rstop,
                 stopPc, consumerVars, refreshVars, obsVars, callVars>>

Push == Receive \/ Decode \/ Notify \/ Ack \/ RecoverNack \/ RecoverCancel

Next ==
  \/ Consumer \/ Refresh \/ Push \/ StopReplication \/ StopStreaming
  \/ StreamReturn \/ StartReturn
Spec == Init /\ [][Next]_vars

\* the Go scheduler runs every goroutine that can run, every timer fires and
\* every call to the stream API and to the adapter returns
\* ------------------------------------------------------- the orchestrator
\* ReplicateDynamoStream: the replicator is built and Start runs in a
\* goroutine of its own
ReplicateDynamoStream(i) == {<<i, "pull">>}

\* ReplicateSpannerStream: returns without a word when the pubsub client
\* cannot be created or the subscription does not exist; else the replicator
\* is built and Start runs in a goroutine of its own
ReplicateSpannerStream(i, clientOk, exists) ==
  IF ~clientOk THEN {}
  ELSE IF ~exists THEN {}
  ELSE {<<i, "push">>}

\* one iteration of the range over config.Streams in ReplicateDynamoStreams
ReplicateDynamoStreams ==
  /\ oi["dynamo"] < Len(config)
  /\ LET i == oi["dynamo"] + 1
         stream == config[i]
     IN /\ oi' = [oi EXCEPT !["dynamo"] = i]
        /\ IF stream.Enabled
             THEN /\ started' = IF stream.Type = "dynamo"
                                  THEN started \cup ReplicateDynamoStream(i)
                                  ELSE started
                  /\ skipped' = skipped
             ELSE /\ started' = started
                  /\ skipped' = skipped \cup {<<i, "dynamoreplicator">>}
  /\ UNCHANGED <<sinceStop, failed, ret, logged, opc, config, twin, streamerVars, rstop,
                 stopPc, consumerVars, refreshVars, obsVars, callVars>>

\* one iteration of the range over config.Streams in ReplicateSpannerStreams
ReplicateSpannerStreams ==
  /\ oi["spanner"] < Len(config)
  /\ LET i == oi["spanner"] + 1
         stream == config[i]
     IN /\ oi' = [oi EXCEPT !["spanner"] = i]
        /\ IF stream.Enabled
             THEN /\ \/ stream.Type # "spanner" /\ started' = started
                     \/ /\ stream.Type = "spanner"
                        /\ \E clientOk, exists \in BOOLEAN :
                             started' = started \cup
                                          ReplicateSpannerStream(i, clientOk, exists)
                  /\ skipped' = skipped
             ELSE /\ started' = started
                  /\ skipped' = skipped \cup {<<i, "spannerreplicator">>}
  /\ UNCHANGED <<sinceStop, failed, ret, logged, opc, config, twin, streamerVars, rstop,
                 stopPc, consumerVars, refreshVars, obsVars, callVars>>

\* the stream lists of a configuration; main runs both functions, each in a
\* goroutine of its own
OrchInit ==
  /\ ProvideStreamer
  /\ ParentShardId \in Topologies
  /\ mode = "pull"
  /\ config \in Configs
  /\ oi = [f \in StreamTypes |-> 0]
  /\ started = {}
  /\ skipped = {}
OrchNext == ReplicateDynamoStreams \/ ReplicateSpannerStreams
OrchSpec == OrchInit /\ [][OrchNext]_vars

\* a pull instance alone
PullInit == Init /\ mode = "pull"
PullNext ==
  \/ Consumer \/ Refresh \/ StopReplication \/ StopStreaming
  \/ StreamReturn \/ StartReturn
FairSpec ==
  /\ PullInit
  /\ [][PullNext]_vars
  /\ WF_vars(Consumer)
  /\ WF_vars(Refresh)
  /\ WF_vars(StreamReturn)
  /\ WF_vars(StartReturn)

\* a pull instance that is not stopped and whose calls do not fail
LiveConsumer == Consumer /\ pc' # "error"
LiveRefresh == Refresh /\ rpc' # "error"
LiveNext == LiveConsumer \/ LiveRefresh
\* the source hands out the records a shard holds, and the end of a closed
\* shard, to a consumer that keeps asking
SourceDelivers ==
  /\ SF_vars(LiveConsumer /\ pc = "getrecords" /\ pageLen' > 0)
  /\ SF_vars(LiveConsumer /\ pc = "getrecords" /\ nextShardIterator' = None)
LiveInit ==
  /\ ProvideStreamer
  /\ mode = "pull"
  /\ ParentShardId \in LiveTopologies
  /\ NoOrchestrator
LiveSpec ==
  /\ LiveInit
  /\ [][LiveNext]_vars
  /\ WF_vars(LiveConsumer)
  /\ WF_vars(LiveRefresh)
  /\ SourceDelivers

\* the same with two open shards of which A has gone quiet: every page of A
\* is empty and has a next iterator
QuietShard == "A"
QuietConsumer ==
  /\ LiveConsumer
  /\ (pc = "getrecords" /\ cur = QuietShard) =>
       (pageLen' = 0 /\ nextShardIterator' # None)
QuietNext == QuietConsumer \/ LiveRefresh
QuietInit ==
  /\ ProvideStreamer
  /\ mode = "pull"
  /\ ParentShardId = Siblings
  /\ NoOrchestrator
QuietSpec ==
  /\ QuietInit
  /\ [][QuietNext]_vars
  /\ WF_vars(QuietConsumer)
  /\ WF_vars(LiveRefresh)
  /\ SF_vars(QuietConsumer /\ pc = "getrecords" /\ pageLen' > 0)

\* two instances on one stream. ProvideStreamer gives each Streamer maps of
\* its own and nothing is shared but the source and the target. Of the
\* second instance the listener calls for one shard are kept: like the first
\* it consumes the shard from its start in source order
TwinShard == "B"
TwinDispatch ==
  /\ Len(twin) < NumRecs
  /\ LET s == TwinShard
         i == Len(twin) + 1
         rec == Record(s, i)
     IN twin' = Append(twin, [shard |-> s, i |-> i, at |-> Len(calls[s]),
                              calls |-> opMap(rec.EventName, rec, TRUE).calls])
  /\ UNCHANGED <<sinceStop, failed, ret, logged, opc, orchVars, streamerVars, rstop,
                 stopPc, consumerVars, refreshVars, obsVars, callVars>>
TwinInit == Init /\ mode = "pull"
TwinNext == LiveConsumer \/ LiveRefresh \/ TwinDispatch
TwinSpec == TwinInit /\ [][TwinNext]_vars

\* a push instance alone: the subscription delivers whenever it may, every
\* callback runs to its end
PushInit == Init /\ mode = "push"
PushNext == Push \/ StopReplication \/ StopStreaming
PushFairSpec ==
  /\ PushInit
  /\ [][PushNext]_vars
  /\ WF_vars(Receive) /\ WF_vars(Decode) /\ WF_vars(Notify) /\ WF_vars(Ack)
  /\ WF_vars(RecoverNack) /\ WF_vars(RecoverCancel)

\* ===================================================================== claims
Last(q) == q[Len(q)]
HasParent(s) == ParentShardId[s] # Nil
\* the sequence number r.shardSequenceNumbers holds for s: {} when none
CheckpointOf(s) == {e[2] : e \in {x \in shardSequenceNumbers : x[1] = s}}
\* the sequence numbers of shard s handed to the listener
DispatchedSeqs(s) == {dispatched[s][k].SequenceNumber : k \in 1..Len(dispatched[s])}
\* the processShard call for cur has returned
Returned == pc \in {"complete", "yielded", "error"}

\* a shard with a parent that is in process, processed, or has had a record
\* handed to the listener has its parent in processedShards
ParentProcessedFirst ==
  \A s \in ShardIds :
    (HasParent(s) /\ (s \in inProcessShards \/ s \in processedShards
                        \/ dispatched[s] # <<>>))
      => ParentShardId[s] \in processedShards
\* a step that puts a shard into inProcessShards takes it from allShards, its
\* parent, when it has one, being in processedShards before the step
PromotedAfterParent ==
  \A s \in ShardIds :
    (s \notin inProcessShards /\ s \in inProcessShards')
      => /\ s \in allShards
         /\ HasParent(s) => ParentShardId[s] \in processedShards
\* C1 (parent before child): a shard with a parent is moved from discovered
\* to in-process only in a state where the parent is already processed, so no
\* record of a child is handed to the listener before its parent is
\* processed; with A and its child B, B stays discovered until A is processed
C1_ParentBeforeChild == []ParentProcessedFirst /\ [][PromotedAfterParent]_vars

\* C1 witness: the child B is in process and a record of it was handed to
\* the listener, its parent A being processed
C1_Witness ==
  /\ "B" \in inProcessShards
  /\ dispatched["B"] # <<>>
  /\ "A" \in processedShards

\* the source returned a nil NextShardIterator for s and every record fetched
\* for s was handed to the listener
Exhausted(s) ==
  /\ s \in nullSeen
  /\ \A e \in fetched : e[1] = s => e[2] \in DispatchedSeqs(s)
\* C2 (exhausted only by a nil iterator): a shard for which processShard
\* returned complete=true, or that is in processedShards, got a nil
\* NextShardIterator from the source, and every record fetched for it was
\* handed to the listener; in every interleaving, stops included
C2_ExhaustedOnlyByNullCursor ==
  /\ \A s \in processedShards : Exhausted(s)
  /\ pc = "complete" => Exhausted(cur)

\* the sequence number of the last listener call of q that returned no error
LastSuccessIn(q) ==
  LET ok == SelectSeq(q, LAMBDA d : ~d.err)
  IN IF ok = <<>> THEN None ELSE Some(Last(ok).SequenceNumber)
\* C3 (checkpoint is the last success): the sequence number held for a shard
\* is the one of the last record of the shard whose listener call returned no
\* error (none when there is no such record), in every state but the one
\* between such a call and the update that follows it, where the entry still
\* is the success before; so it holds whenever a page is requested
C3_CheckpointIsLastSuccess ==
  \A s \in ShardIds :
    IF pc = "sequence" /\ s = cur
      THEN CheckpointOf(s) = LastSuccessIn(SubSeq(dispatched[s], 1, Len(dispatched[s]) - 1))
      ELSE CheckpointOf(s) = LastSuccessIn(dispatched[s])

\* C3 witness: a page of A was processed, a record of it went through the
\* listener without error and the next page is about to be requested
C3_Witness ==
  /\ pc = "page"
  /\ cur = "A"
  /\ dispatchedInCall > 0
  /\ CheckpointOf("A") = {SeqNum(1)}
  /\ currentShardIterator # None

\* the sequence number of every shard is kept or replaced by a later one
CheckpointGrows ==
  \A s \in ShardIds :
    \A a \in CheckpointOf(s) : \E b \in CheckpointOf(s)' : b >= a
\* C4 (monotonic checkpoint): no step, over any passes, yields and
\* re-consumptions, removes the sequence number of a shard or replaces it by
\* an earlier one
C4_MonotonicCheckpoint == [][CheckpointGrows]_vars

\* C4 witness: a shard consumed again from its checkpoint got a later one
C4_Witness ==
  /\ pc = "page"
  /\ lastSequenceId # None
  /\ \E b \in CheckpointOf(cur) : b > Val(lastSequenceId)

\* the step is a GetShardIterator call
IteratorCalled == pc = "getiter" /\ pc' # "getiter"
\* C5 (resume position): every GetShardIterator call asks for TRIM_HORIZON,
\* with no sequence number, when the shard has no entry in
\* shardSequenceNumbers, and else for AFTER_SEQUENCE_NUMBER with the entry
C5_ResumePosition ==
  [][IteratorCalled =>
       iterReq' = Some([shard |-> cur,
                        kind |-> IF CheckpointOf(cur) = {} THEN "TRIM_HORIZON"
                                 ELSE "AFTER_SEQUENCE_NUMBER",
                        seq |-> CheckpointOf(cur)])]_vars

\* C5 witness: shard A, checkpointed at its first record, is consumed again
C5_Witness ==
  /\ pc = "page"
  /\ iterReq = Some([shard |-> "A", kind |-> "AFTER_SEQUENCE_NUMBER",
                     seq |-> Some(SeqNum(1))])

StrictlyGrowing(q) ==
  \A i, j \in 1..Len(q) : i < j => q[i].SequenceNumber < q[j].SequenceNumber
\* no record of a shard was handed to the listener twice
NoRecordTwice == \A s \in ShardIds : StrictlyGrowing(dispatched[s])
\* a record handed to the listener is later than the shard's checkpoint
DispatchedAfterCheckpoint ==
  \A s \in ShardIds :
    Len(dispatched'[s]) > Len(dispatched[s])
      => \A c \in CheckpointOf(s) : Last(dispatched'[s]).SequenceNumber > c
\* C6 (no re-delivery): within one run a record at or before the shard's
\* checkpoint is never handed to the listener again, also when the shard
\* yielded and is consumed again, and no record is handed over twice
C6_NoRedelivery == []NoRecordTwice /\ [][DispatchedAfterCheckpoint]_vars

\* C6 witness: a shard that yielded with a checkpoint is consumed again and
\* a record is handed to the listener
C6_Witness ==
  /\ lastSequenceId # None
  /\ dispatchedInCall > 0
  /\ pc = "sequence"

\* the processShard call under way fetched 5 pages, all empty and each with a
\* NextShardIterator
FiveEmptyPages ==
  /\ nilForCount = YieldThreshold
  /\ emptyRun = YieldThreshold
  /\ currentShardIterator # None
  /\ \E in \in iterReq :
       currentShardIterator =
         Some(IteratorPosition(in.kind, IF in.seq = None THEN 0 ELSE Val(in.seq)))
\* C7 (voluntary yield): a processShard call that read 5 empty pages in a
\* row, each with a NextShardIterator, returns complete=false with no error,
\* has handed no record to the listener, and leaves the shard in
\* inProcessShards with its sequence number unchanged
C7_VoluntaryYield ==
  (Returned /\ FiveEmptyPages)
    => /\ pc = "yielded"
       /\ dispatchedInCall = 0
       /\ CheckpointOf(cur) = lastSequenceId
       /\ cur \in inProcessShards

\* C8 (consecutive empty pages): processShard returns complete=false only
\* when the last 5 pages it fetched were all empty
C8_ConsecutiveEmptyPages == pc = "yielded" => emptyRun >= YieldThreshold

\* every adapter call made is a PutItem
OnlyPuts ==
  /\ \A s \in ShardIds : \A k \in 1..Len(calls[s]) : calls[s][k].op = "PutItem"
  /\ \A k \in 1..Len(pushCalls) : pushCalls[k].op = "PutItem"
\* handing a REMOVE record to the listener makes no adapter call
RemoveCallsNothing ==
  /\ \A s \in ShardIds :
       (Len(dispatched'[s]) > Len(dispatched[s])
          /\ Last(dispatched'[s]).EventName = "REMOVE") => calls' = calls
  /\ (Len(pushDispatched') > Len(pushDispatched)
        /\ Last(pushDispatched').EventName = "REMOVE") => pushCalls' = pushCalls
\* C9 (delete is never destructive): handing a REMOVE record to the listener,
\* from a shard or from a push message, makes no delete, put or update call on
\* the adapter, and no delete or update call is ever made
C9_RemoveIssuesNoCall == []OnlyPuts /\ [][RemoveCallsNothing]_vars

\* C9 witness: the REMOVE record of shard A went through the handler of a
\* replicator that was not stopped, and no adapter call was made
C9_Witness ==
  /\ dispatched["A"] # <<>>
  /\ dispatched["A"][1].EventName = "REMOVE"
  /\ ~rstop
  /\ calls["A"] = <<>>

\* the PutItem of the configured table and the new image of the record of d,
\* with the error the listener returned for d
PutOf(d) == [op |-> "PutItem", table |-> TableName, item |-> d.NewImage, err |-> d.err]
UpsertCallsPut ==
  /\ \A s \in ShardIds :
       (Len(dispatched'[s]) > Len(dispatched[s])
          /\ Last(dispatched'[s]).EventName \in {"INSERT", "MODIFY"})
         => calls'[s] = Append(calls[s], PutOf(Last(dispatched'[s])))
  /\ (Len(pushDispatched') > Len(pushDispatched)
        /\ Last(pushDispatched').EventName \in {"INSERT", "MODIFY"})
       => pushCalls' = Append(pushCalls, PutOf(Last(pushDispatched')))
\* C10 (insert and modify are one upsert): handing an INSERT or MODIFY record
\* to the listener makes exactly one adapter call, PutItem of the configured
\* table and the record's new image, and the listener returns the error of
\* that call
C10_InsertModifyOnePut == [][UpsertCallsPut]_vars

\* the records handed to the listener for a shard are the first records of
\* the shard, in the order of the source
InSourceOrder ==
  \A s \in ShardIds :
    \A k \in 1..Len(dispatched[s]) :
      dispatched[s][k].SequenceNumber = Record(s, k).SequenceNumber
\* a step that hands a record to the listener hands over one record, the
\* first one left of the page of the shard being consumed, and the listener
\* has returned when the step is over
DispatchesHeadOfPage ==
  \A s \in ShardIds :
    Len(dispatched'[s]) > Len(dispatched[s])
      => /\ s = cur /\ pc = "notify" /\ records # <<>>
         /\ pc' \in {"sequence", "error"}
         /\ Len(dispatched'[s]) = Len(dispatched[s]) + 1
         /\ Last(dispatched'[s]).SequenceNumber = Head(records).SequenceNumber
         /\ \A o \in ShardIds \ {s} : dispatched'[o] = dispatched[o]
\* C11 (within-shard order): the records of a shard are handed to the
\* listener in the order the source returns them, page by page and in order
\* inside a page, and one record at a time: a record is handed over only
\* after the listener call of the record before has returned
C11_WithinShardOrder == []InSourceOrder /\ [][DispatchesHeadOfPage]_vars

\* C11 witness: the two records of A came in two pages and both were handed
\* to the listener
C11_Witness ==
  /\ pc = "sequence"
  /\ cur = "A"
  /\ pageLen = 1
  /\ Len(dispatched["A"]) = NumRecs

\* a record whose listener call returned an error is the last one of its
\* shard handed to the listener, the consumer goroutine is ending, and the
\* sequence number of the shard is the one of the record before, if any
FailureEndsShard ==
  \A s \in ShardIds :
    \A k \in 1..Len(dispatched[s]) :
      dispatched[s][k].err
        => /\ k = Len(dispatched[s])
           /\ pc \in {"error", "done"}
           /\ CheckpointOf(s) = IF k = 1 THEN None
                                ELSE Some(dispatched[s][k - 1].SequenceNumber)
\* a listener call that returned an error makes processShard return it, and
\* processShardsCron then sets stop and ends
FailureAborts ==
  /\ \A s \in ShardIds :
       (Len(dispatched'[s]) > Len(dispatched[s]) /\ Last(dispatched'[s]).err)
         => pc' = "error"
  /\ pc = "error" => (pc' = "error" \/ (pc' = "done" /\ stop'))
\* C12 (dispatch failure is fatal): when the put of record R of shard S
\* fails, the processShard call returns that error, the sequence number of S
\* is not moved to R but stays at the record before R, and no record of S
\* after R is handed to the listener in that run
C12_DispatchFailureIsFatal == []FailureEndsShard /\ [][FailureAborts]_vars

\* C12 witness: the put of the second record of A failed, the goroutine has
\* ended and the sequence number of A is the one of its first record
C12_Witness ==
  /\ pc = "done"
  /\ Len(dispatched["A"]) = 2
  /\ dispatched["A"][2].err
  /\ CheckpointOf("A") = Some(SeqNum(1))

\* the deliveries made so far
Made == 1..Len(delivered)
\* the message of delivery d decodes
Decodes(d) == msgs[delivered[d]].decodes
\* delivery d was handed to the listeners
Notified(d) == \E k \in 1..Len(notified) : notified[k] = d
\* the error the listeners returned for delivery d
NotifyErr(d) == pushDispatched[CHOOSE k \in 1..Len(notified) : notified[k] = d].err
\* decode and dispatch of delivery d both succeeded
Succeeded(d) == Decodes(d) /\ Notified(d) /\ ~NotifyErr(d)
\* decode or dispatch of delivery d failed
Failed(d) == ~Decodes(d) \/ (Notified(d) /\ NotifyErr(d))
\* the callback of delivery d has returned
CallbackDone(d) == ppc[d] = "done"

\* C13 (push acknowledgement contract): every message handed to the Receive
\* callback gets at most one of Ack and Nack while the callback runs and
\* exactly one of them, once, when it has returned; Ack if decode and the
\* listener call both succeeded, and else Nack followed by cancel()
C13_AckOrNack ==
  \A d \in Made :
    /\ acks[d] + nacks[d] <= 1
    /\ acks[d] = 1 => (Succeeded(d) /\ cancels[d] = 0)
    /\ nacks[d] = 1 => Failed(d)
    /\ cancels[d] > 0 => nacks[d] = 1
    /\ CallbackDone(d) =>
         /\ acks[d] + nacks[d] = 1
         /\ Succeeded(d) => acks[d] = 1
         /\ Failed(d) => (nacks[d] = 1 /\ cancels[d] = 1)

\* C13 witness: one delivery was acked and a later one, which failed, was
\* nacked and its callback called cancel()
C13_Witness ==
  \E d, e \in Made :
    /\ d < e
    /\ CallbackDone(d) /\ acks[d] = 1
    /\ CallbackDone(e) /\ nacks[e] = 1 /\ cancels[e] = 1

\* C14 (push decode failure): a message that does not decode is never handed
\* to the listeners and never acked; its callback calls Nack once and cancel()
\* once, and has done both when it returns
C14_DecodeFailure ==
  \A d \in Made :
    ~Decodes(d) =>
      /\ ~Notified(d)
      /\ acks[d] = 0
      /\ nacks[d] <= 1
      /\ cancels[d] <= nacks[d]
      /\ CallbackDone(d) => (nacks[d] = 1 /\ cancels[d] = 1)

\* C14 witness: the callback of a message that does not decode has returned
C14_Witness == \E d \in Made : ~Decodes(d) /\ CallbackDone(d) /\ cancelled

\* delivery d has failed: its callback panicked
HasFailed(d) == ppc[d] \in {"recover", "cancel", "done"} /\ Failed(d)
\* C15 (a single push failure stops the subscriber): once the decode or the
\* listener call of a delivery has failed, no later delivery is handed to the
\* listeners or acked, and the message that failed is never acked
C15_FailureStopsSubscriber ==
  \A d \in Made :
    HasFailed(d) =>
      /\ \A e \in Made : e > d => (~Notified(e) /\ acks[e] = 0)
      /\ ~Acked(delivered[d])

\* the deliveries handed to the listeners were handed over in delivery order
InDeliveryOrder ==
  \A j, k \in 1..Len(notified) : j < k => notified[j] < notified[k]
\* a delivery is handed to the listeners while it is the only one outstanding
NotifiesTheOutstanding ==
  Len(notified') > Len(notified)
    => {d \in Deliveries : Outstanding(d)} = {Last(notified')}
\* C16 (push flow control): at most one message of the subscription is
\* between its delivery and its Ack or Nack at any time, so the messages are
\* handed to the listeners in delivery order, each while it is the only one
\* outstanding
C16_OneOutstanding ==
  /\ [](Cardinality({d \in Deliveries : Outstanding(d)}) <= 1)
  /\ []InDeliveryOrder
  /\ [][NotifiesTheOutstanding]_vars

\* C16 witness: two deliveries were handed to the listeners, one after the
\* other
C16_Witness == Len(notified) = 2 /\ notified[1] < notified[2]

\* the shards the streamer knows: the keys of its three maps
Known == allShards \cup inProcessShards \cup processedShards

\* a shard is added to allShards only by the add statement of fetchShards,
\* and only when it is in none of the three maps
AddsOnlyUnknown ==
  \A s \in ShardIds :
    (s \notin allShards /\ s \in allShards')
      => (rpc = "add" /\ s = Head(shards) /\ s \notin Known)
\* a step of fetchShards made when every shard of the stream is known changes
\* none of the three maps
RefreshAgainChangesNothing ==
  (Refresh /\ Known = ShardIds)
    => UNCHANGED <<allShards, inProcessShards, processedShards>>
\* C17 (refresh is idempotent and skips known shards): fetchShards adds a
\* shard to allShards only if its id is in none of allShards, inProcessShards
\* and processedShards, so a shard that is in process or processed is never
\* put back; and running it again on the same shards changes no map
C17_RefreshIdempotent ==
  [][AddsOnlyUnknown]_vars /\ [][RefreshAgainChangesNothing]_vars

\* C17 witness: with every shard known, a later refresh looks at a shard that
\* is processed and is about to skip it
C17_Witness ==
  /\ rpc = "check_processed"
  /\ Head(shards) \in processedShards
  /\ Known = ShardIds

\* C18 (bucket disjointness): in every state, the ones between the two
\* statements of a promotion or of a completion included, allShards,
\* inProcessShards and processedShards are pairwise disjoint
C18_BucketsDisjoint ==
  /\ allShards \cap inProcessShards = {}
  /\ inProcessShards \cap processedShards = {}
  /\ allShards \cap processedShards = {}

\* every change of the maps is a step Discovered -> InProcess -> Processed
OneWay ==
  /\ Known \subseteq Known'
  /\ processedShards \subseteq processedShards'
  /\ \A s \in ShardIds :
       /\ (s \notin allShards /\ s \in allShards') => s \notin Known
       /\ (s \notin inProcessShards /\ s \in inProcessShards')
            => (s \in allShards /\ s \notin processedShards)
       /\ (s \notin processedShards /\ s \in processedShards')
            => s \in inProcessShards
       /\ (s \in allShards /\ s \notin allShards') => s \in inProcessShards'
       /\ (s \in inProcessShards /\ s \notin inProcessShards')
            => s \in processedShards'
\* C19 (shard lifecycle is one-way): a shard enters allShards only when it is
\* unknown, inProcessShards only from allShards, processedShards only from
\* inProcessShards; it leaves a map only for the next one, never leaves
\* processedShards, and once known it stays in one of the three maps
C19_LifecycleOneWay == [][OneWay]_vars

\* C19 witness: both shards went all the way to processedShards
C19_Witness ==
  /\ processedShards = ShardIds
  /\ allShards = {}
  /\ inProcessShards = {}

\* the shards that have a sequence number
Checkpointed == {e[1] : e \in shardSequenceNumbers}
\* fetchShards only adds to allShards
RefreshFrame ==
  Refresh
    => /\ allShards \subseteq allShards'
       /\ UNCHANGED <<inProcessShards, processedShards, shardSequenceNumbers>>
\* processShards moves shards it knows between the maps and sets sequence
\* numbers of shards it is consuming; it makes no shard known
ConsumerFrame ==
  Consumer
    => /\ Known' = Known
       /\ allShards' \subseteq allShards
       /\ Checkpointed' \subseteq Checkpointed \cup inProcessShards
\* no other step changes the maps
OthersFrame ==
  (~Refresh /\ ~Consumer)
    => UNCHANGED <<allShards, inProcessShards, processedShards, shardSequenceNumbers>>
\* C20 (division of mutation between the two goroutines): fetchShards only
\* adds entries to allShards and leaves inProcessShards, processedShards and
\* shardSequenceNumbers as they are; processShards only moves entries between
\* the maps and sets sequence numbers, and makes no shard known that
\* fetchShards did not add
C20_DivisionOfMutation ==
  [][RefreshFrame]_vars /\ [][ConsumerFrame]_vars /\ [][OthersFrame]_vars

\* C20 witness: fetchShards added both shards; processShards moved A to
\* processedShards and gave it a sequence number, B is still in allShards
C20_Witness ==
  /\ "A" \in processedShards
  /\ "B" \in allShards
  /\ "A" \in Checkpointed
  /\ Known = ShardIds
\* a listener call for a record of s returned no error
SuccessIn(q) == \E k \in 1..Len(q) : ~q[k].err
\* C21 as claimed (checkpoint existence, in every state): a shard has a
\* sequence number if and only if the listener call of one of its records
\* returned no error, and a shard in allShards has none
C21_CheckpointIffDispatched ==
  \A s \in ShardIds :
    /\ (CheckpointOf(s) # {}) <=> SuccessIn(dispatched[s])
    /\ s \in allShards => CheckpointOf(s) = {}

\* C21 as amended (checkpoint existence): the same, but for the state between
\* the return of a listener call and the write of the sequence number that
\* follows it, where the record just handed over does not count yet
C21_CheckpointExistence ==
  \A s \in ShardIds :
    /\ (CheckpointOf(s) # {}) <=>
         SuccessIn(IF pc = "sequence" /\ s = cur
                     THEN SubSeq(dispatched[s], 1, Len(dispatched[s]) - 1)
                     ELSE dispatched[s])
    /\ s \in allShards => (CheckpointOf(s) = {} /\ dispatched[s] = <<>>)

\* C21 witness: the first record of A was handed over and its sequence
\* number written, while B, still in allShards, has none
C21_Witness ==
  /\ pc = "records"
  /\ Len(dispatched["A"]) = 1
  /\ CheckpointOf("A") = Some(SeqNum(1))
  /\ "B" \in allShards
  /\ CheckpointOf("B") = {}
\* ---------------------------------------------------------------- C23
\* with stop set, no iteration of the four loops of the consumer goroutine
\* goes past its look at stop: not to a promotion, not to a processShard
\* call, not to a GetRecords call, not to a listener call
StopObserved ==
  stop =>
    /\ pc = "promote" => pc' # "promote_insert"
    /\ pc = "consume" => pc' # "getiter"
    /\ pc = "page" => pc' # "getrecords"
    /\ pc = "records" => pc' # "notify"

\* C23: once stop is set, no iteration that begins afterwards promotes a
\* shard or starts a GetShardIterator or GetRecords call, and the consumer
\* goroutine makes at most the one promotion, call or dispatch whose look at
\* stop had already passed
C23_StopBetweenSteps ==
  /\ [](sinceStop <= 1)
  /\ [][StopObserved]_vars

\* StopStreaming ran after the look at stop of a record and before its
\* listener call, which was still made; a record of the page is left
C23_Witness ==
  /\ stopPc = 2 /\ stop
  /\ pc = "sequence"
  /\ sinceStop = 1
  /\ failed = {}
  /\ Len(records) = 2
\* ---------------------------------------------------------------- C25
\* C25: when a topology, iterator, records or dispatch call has failed in a
\* pull instance, what Stream returns to Start is a non-nil error, and the
\* goroutine that called Start has logged it when it ends
C25_ErrorsReachOrchestrator ==
  failed # {} =>
    /\ ret # None => Val(ret) # Nil
    /\ opc = "ended" => logged
\* ---------------------------------------------------------------- C26
\* the DescribeStream call of the refresh under way has failed, or the
\* goroutine has ended
RefreshAborted == rpc \in {"error", "done"}

\* the step at which DescribeStream fails changes none of the four maps
FailedPageChangesNothing ==
  (rpc = "describe" /\ rpc' = "error") =>
    UNCHANGED <<allShards, inProcessShards, processedShards, shardSequenceNumbers>>

\* after the failure the refresh goroutine asks for no page, the failed one
\* included, looks at no shard and changes none of the four maps
AbortedMakesNoCall ==
  RefreshAborted =>
    /\ RefreshAborted'
    /\ UNCHANGED <<shards, outLastEvaluated, lastEvaluatedShardId>>
    /\ Refresh =>
          UNCHANGED <<allShards, inProcessShards, processedShards, shardSequenceNumbers>>

\* C26: a failed DescribeStream call ends fetchShards at once: no further
\* call, no retry; the shards added from earlier pages stay known, and the
\* refresh changes no map
C26_RefreshFailureAborts ==
  /\ [][FailedPageChangesNothing]_vars
  /\ [][AbortedMakesNoCall]_vars
  /\ [](rpc = "error" => "topology" \in failed)

\* the call for the second page failed; the shard of the first page is known
C26_Witness ==
  /\ rpc = "error"
  /\ lastEvaluatedShardId = "A"
  /\ "A" \in allShards
\* ---------------------------------------------------------------- C27
\* C27: whatever checkpoint the stream definition of a pull instance
\* supplies to Start, only records of that shard with a later sequence number
\* are handed to the listener. Stream() has no parameter for the checkpoint,
\* so the instance runs the same for every checkpoint of the definition
C27_ConfiguredCheckpoint ==
  \A c \in Checkpoints :
    (mode = "pull" /\ c.LastShardID # Nil) =>
      \A q \in DispatchedSeqs(c.LastShardID) : q > c.LastSequenceNumber
\* ---------------------------------------------------------------- C22
\* C22: after StopStreaming has set stop on a pull instance, both goroutines
\* end and Stream() returns
C22_StopTerminates ==
  (mode = "pull" /\ stopPc = 2) ~> (pc = "done" /\ rpc = "done" /\ ret # None)

\* Stop was called while a shard was being consumed and no call had failed;
\* both goroutines have ended and Stream has returned
C22_Witness ==
  /\ mode = "pull" /\ stopPc = 2
  /\ failed = {}
  /\ dispatched["A"] # <<>>
  /\ pc = "done" /\ rpc = "done" /\ ret # None
\* ---------------------------------------------------------------- C24
\* sub.Receive returns: the context is cancelled and no callback is running
PushEnded ==
  /\ cancelled
  /\ \A d \in Deliveries : ppc[d] \in {"none", "done"}

OrchestratorDone == \A f \in StreamTypes : oi[f] = Len(config)
\* the instance an enabled definition asks for
InstanceOf(i) == <<i, IF config[i].Type = "dynamo" THEN "pull" ELSE "push">>

\* C28: once the orchestrator has gone through a stream list, the instances
\* started are those of the enabled definitions, a pull one for type dynamo
\* and a push one for type spanner; the disabled ones are logged as skipped
\* and start nothing
C28_OrchestrationByConfig ==
  /\ \A e \in started : e[1] \in 1..Len(config) /\ config[e[1]].Enabled
                          /\ e = InstanceOf(e[1])
  /\ \A e \in skipped : ~config[e[1]].Enabled
  /\ OrchestratorDone =>
       /\ started = {InstanceOf(i) : i \in {j \in 1..Len(config) : config[j].Enabled}}
       /\ {e[1] : e \in skipped} = {j \in 1..Len(config) : ~config[j].Enabled}
\* ---------------------------------------------------------------- C29
\* every record of shard s has been handed to the listener
AllDispatched(s) == \A i \in 1..NumRecs : SeqNum(i) \in DispatchedSeqs(s)

\* C29: with A quiet for ever and in process, the records of the other
\* in-process shard are all dispatched in the end, and processShard is
\* called for A again and again
C29_QuietShardDoesNotBlock ==
  /\ \A s \in ShardIds \ {QuietShard} :
       (QuietShard \in inProcessShards /\ s \in inProcessShards) ~> AllDispatched(s)
  /\ []<>(pc = "getiter" /\ cur = QuietShard)

\* A has passed control after its empty pages, with B in process beside it,
\* and all records of B were dispatched
C29_Witness ==
  /\ pc = "yielded" /\ cur = QuietShard
  /\ "B" \in inProcessShards
  /\ AllDispatched("B")
\* ---------------------------------------------------------------- C30
\* C30: with no stop and no failing call, and a source that ends every shard
\* it is asked about, every shard DescribeStream lists, whatever its
\* ParentShardId, is in processedShards in the end
C30_NoShardStalls ==
  \A s \in ShardIds : <>(s \in processedShards)
\* ---------------------------------------------------------------- C31
\* the promotion rule holds for s: no parent, or a processed one
Promotable(s) == ParentShardId[s] = Nil \/ ParentShardId[s] \in processedShards

\* a shard whose parent is not processed is not taken out of allShards
UnpromotableStays ==
  \A s \in allShards : ~Promotable(s) => s \in allShards' /\ s \notin inProcessShards'

\* a pass looks at every shard that is in allShards when it begins, and the
\* shard it looks at is promoted if the rule holds for it
PassEvaluatesAll ==
  /\ (pc = "pass" /\ pc' = "promote") => todo' = allShards
  /\ (pc = "promote" /\ pc' = "consume") => todo = {}
  /\ pc = "promote" =>
       \A s \in todo \ todo' :
         IF Promotable(s) THEN pc' = "promote_insert" /\ cur' = s
                          ELSE pc' = "promote"
  /\ pc = "promote_insert" => (pc' = pc \/ cur \in inProcessShards')

\* C31: with no stop and no failure, a shard in allShards whose parent is
\* not processed stays there; every pass looks at every shard of allShards
\* and promotes those without a parent or with a processed one, so that a
\* shard whose parent has become processed is in inProcessShards in the end
C31_PromotionEveryPass ==
  /\ [][UnpromotableStays]_vars
  /\ [][PassEvaluatesAll]_vars
  /\ \A s \in ShardIds :
       (s \in allShards /\ Promotable(s)) ~> (s \in inProcessShards)

\* B waited in allShards while A was consumed and was promoted after A
\* became processed
C31_Witness ==
  /\ ParentShardId["B"] = "A"
  /\ "A" \in processedShards
  /\ "B" \in inProcessShards
  /\ pc = "promote_delete"
\* ---------------------------------------------------------------- C32
\* the PutItem calls of record i of shard s made by the first instance, and by
\* the second
PutsOf(s, i) ==
  {j \in 1..Len(calls[s]) : calls[s][j].op = "PutItem" /\ calls[s][j].item = Record(s, i).NewImage}
TwinPutsOf(s, i) ==
  {k \in 1..Len(twin) : twin[k].shard = s /\ twin[k].i = i /\ twin[k].calls # <<>>}

IsUpsert(s, i) == Record(s, i).EventName \in {"INSERT", "MODIFY"}
\* a PutItem of record i of shard s was made and returned no error
PutApplied(s, i) == \E j \in PutsOf(s, i) : ~calls[s][j].err

\* C33: the sequence number r.shardSequenceNumbers holds for a shard is that
\* of a record whose handler ran and returned no error: for an INSERT or
\* MODIFY, its PutItem was made and succeeded
C33_CheckpointImpliesApplied ==
  \A s \in ShardIds, i \in 1..NumRecs :
    (SeqNum(i) \in CheckpointOf(s) /\ IsUpsert(s, i)) => PutApplied(s, i)
\* ---------------------------------------------------------------- C34
\* a PutItem of message i was made and returned no error
PushApplied(i) ==
  \E j \in 1..Len(pushCalls) :
    /\ pushCalls[j].op = "PutItem"
    /\ pushCalls[j].item = PushRecord(i).NewImage
    /\ ~pushCalls[j].err

\* C34: a push message is acked only if its handler ran and returned no
\* error: for an INSERT or MODIFY, its PutItem was made and succeeded
C34_AckImpliesApplied ==
  \A d \in Made :
    (acks[d] > 0 /\ msgs[delivered[d]].EventName \in {"INSERT", "MODIFY"}) =>
      PushApplied(delivered[d])
\* ---------------------------------------------------------------- C35
\* a shard that enters allShards is in neither of the other maps, before and
\* after the step, and no record of it was ever handed to the listener
NeverReAdds ==
  \A s \in allShards' \ allShards :
    /\ s \notin inProcessShards \cup processedShards
    /\ s \notin inProcessShards' \cup processedShards'
    /\ dispatched[s] = <<>>
\* a shard that was promoted stays promoted or processed
PromotedStays ==
  (inProcessShards \cup processedShards) \subseteq (inProcessShards' \cup processedShards')
\* processShard asks for the start of a shard only while no record of it was
\* dispatched with success
StartOnlyOnce ==
  (pc = "getiter" /\ iterReq' # iterReq /\ Val(iterReq').kind = "TRIM_HORIZON") =>
    \A k \in 1..Len(dispatched[cur]) : dispatched[cur][k].err

\* C35: whatever the interleaving of the three membership checks of
\* fetchShards with the moves of processShards, a shard that was promoted is
\* never put into allShards again, and no shard is read from its start after
\* a record of it was dispatched
C35_RefreshNeverReAdds ==
  /\ [][NeverReAdds]_vars
  /\ [][PromotedStays]_vars
  /\ [][StartOnlyOnce]_vars

\* fetchShards has found A missing from allShards and is about to look at
\* inProcessShards while processShards is between its insert of A into
\* processedShards and its delete from inProcessShards
C35_Witness ==
  /\ rpc = "check_inprocess" /\ Head(shards) = "A"
  /\ pc = "complete_delete" /\ cur = "A"
  /\ "A" \in inProcessShards /\ "A" \in processedShards
\* ---------------------------------------------------------------- C36
\* the next statement of fetchShards writes allShards (line 83), reads it (79)
RefreshWritesAllShards == rpc = "add"
RefreshReadsAllShards == rpc = "shards" /\ shards # <<>> /\ ~stop
\* processShards is inside its range over allShards (lines 113-126); its next
\* statement deletes from allShards (123)
ConsumerRangesAllShards == pc \in {"promote", "promote_insert", "promote_delete"}
ConsumerWritesAllShards == pc = "promote_delete"
\* the next statement of the goroutine reads r.stop
ConsumerReadsStop ==
  \/ pc \in {"cron", "pass", "promote", "consume", "page"}
  \/ pc = "records" /\ records # <<>>
RefreshReadsStop == rpc \in {"cron", "describe"} \/ (rpc = "shards" /\ shards # <<>>)
\* two accesses of allShards, one of them a write, that nothing orders
MapRace ==
  \/ RefreshWritesAllShards /\ ConsumerRangesAllShards
  \/ RefreshReadsAllShards /\ ConsumerWritesAllShards
\* a write of r.stop and a read of it by another goroutine that nothing orders
StopRace ==
  \/ mode = "pull" /\ stopPc = 1 /\ (ConsumerReadsStop \/ RefreshReadsStop)
  \/ pc = "error" /\ RefreshReadsStop
  \/ rpc = "error" /\ ConsumerReadsStop

\* C36: the refresh goroutine is never about to write allShards while the
\* consumption goroutine is ranging over it or about to write it, and r.stop
\* is never about to be written by one goroutine while another is about to
\* read it
C36_MapsUnderMutualExclusion == ~MapRace /\ ~StopRace
\* ---------------------------------------------------------------- C37
\* the cron that gets the error of fetchShards or of processShards sets stop
\* as it ends
FailureSetsStop ==
  /\ (pc = "error" /\ pc' # "error") => (stop' /\ pc' = "done")
  /\ (rpc = "error" /\ rpc' # "error") => (stop' /\ rpc' = "done")
\* stop is never cleared
StopStays == stop => stop'
\* a call has failed and Stop was not called: the failure alone has set stop
\* and ended both goroutines
StoppedByFailure ==
  /\ failed # {} /\ stopPc = 0
  /\ stop /\ pc = "done" /\ rpc = "done"

\* C37: a failed DescribeStream, GetShardIterator, GetRecords or listener
\* call sets stop, stop is never cleared, with stop set no loop iteration
\* promotes a shard or dispatches a record (one act past its look at stop
\* apart), and both goroutines end
C37_FailureStopsInstance ==
  /\ [][FailureSetsStop]_vars
  /\ [][StopStays]_vars
  /\ [][StopObserved]_vars
  /\ [](sinceStop <= 1)
  /\ (failed # {}) ~> (stop /\ pc = "done" /\ rpc = "done")

\* GetRecords failed on shard A while B waited in allShards; Stop was never
\* called, B was not promoted, both goroutines have ended
C37_Witness ==
  /\ StoppedByFailure
  /\ failed = {"records"} /\ cur = "A"
  /\ "B" \in allShards /\ dispatched["B"] = <<>>
\* ---------------------------------------------------------------- C38
\* a GetShardIterator or GetRecords call of processShard has failed
NetworkFailed == failed \cap {"iterator", "records"} # {}
\* the step at which GetShardIterator or GetRecords fails: processShard
\* returns the error, the maps and the sequence numbers are as they were
FailureReturnsError ==
  ((failed' \ failed) \cap {"iterator", "records"} # {}) =>
    /\ pc \in {"getiter", "getrecords"} /\ pc' = "error"
    /\ UNCHANGED <<cur, inProcessShards, processedShards, shardSequenceNumbers>>

\* C38: when GetShardIterator or GetRecords fails for a shard, processShard
\* returns the error; from then on the shard is in inProcessShards and not in
\* processedShards, and its sequence number is the one of the last record of
\* it whose listener call returned no error
C38_NetworkFailureKeepsProgress ==
  /\ [][FailureReturnsError]_vars
  /\ [](NetworkFailed =>
          /\ pc \in {"error", "done"}
          /\ cur \in inProcessShards \ processedShards
          /\ CheckpointOf(cur) = LastSuccessIn(dispatched[cur]))

\* GetRecords failed for A after its first record went through the listener
\* and before the second was fetched
C38_Witness ==
  /\ failed = {"records"} /\ pc = "error" /\ cur = "A"
  /\ Len(dispatched["A"]) = 1
  /\ CheckpointOf("A") = {SeqNum(1)}
  /\ "A" \in inProcessShards
\* ---------------------------------------------------------------- C39
\* pull: the listener call for a REMOVE record returns no error and makes no
\* adapter call, and the step after it writes the sequence number of the
\* record for its shard
PullRemoveSucceeds ==
  /\ (pc = "notify" /\ pc' # "notify" /\ Head(records).EventName = "REMOVE") =>
        /\ pc' = "sequence"
        /\ ~Last(dispatched'[cur]).err
        /\ calls' = calls
  /\ (pc = "sequence" /\ pc' # "sequence" /\ Head(records).EventName = "REMOVE") =>
        CheckpointOf(cur)' = {Head(records).SequenceNumber}
\* push: the listener call for a REMOVE message returns no error and makes no
\* adapter call, and the callback goes on to m.Ack()
PushRemoveSucceeds ==
  \A d \in Made :
    (ppc[d] = "notify" /\ ppc'[d] # "notify" /\ msgs[delivered[d]].EventName = "REMOVE") =>
      /\ ppc'[d] = "ack"
      /\ pushCalls' = pushCalls
\* a REMOVE message that decodes is acked, once, when its callback has returned
RemoveAcked ==
  \A d \in Made :
    (CallbackDone(d) /\ Decodes(d) /\ msgs[delivered[d]].EventName = "REMOVE") =>
      (acks[d] = 1 /\ nacks[d] = 0 /\ cancels[d] = 0)

\* C39: a REMOVE record always is a successful dispatch: its listener call
\* returns no error and makes no call to the target; on the pull path the
\* sequence number of its shard advances to it, on the push path its message
\* is acked
C39_RemoveIsSuccess ==
  /\ [][PullRemoveSucceeds]_vars
  /\ [][PushRemoveSucceeds]_vars
  /\ []RemoveAcked
  /\ [](\A s \in ShardIds : \A k \in 1..Len(dispatched[s]) :
          dispatched[s][k].EventName = "REMOVE" => ~dispatched[s][k].err)

\* the sequence number of A is that of its first record, a REMOVE, for which
\* no call was made
C39_Witness ==
  /\ Record("A", 1).EventName = "REMOVE"
  /\ CheckpointOf("A") = {SeqNum(1)}
  /\ calls["A"] = <<>>
  /\ ~rstop

\* a REMOVE message was acked, with no call made
C39_PushWitness ==
  \E d \in Made :
    /\ msgs[delivered[d]].EventName = "REMOVE"
    /\ acks[d] = 1
    /\ pushCalls = <<>>
    /\ ~rstop
\* ---------------------------------------------------------------- C40
\* the event name of the message of delivery d has no handler in opMap
UnknownEvent(d) ==
  /\ Decodes(d)
  /\ msgs[delivered[d]].EventName \notin {"INSERT", "MODIFY", "REMOVE"}
\* a call to the target was made for the message of delivery d
PushCallFor(d) ==
  \E j \in 1..Len(pushCalls) :
    pushCalls[j].item \in {PushRecord(delivered[d]).NewImage, PushRecord(delivered[d]).OldImage}

\* C40: a delivery of a push message whose event name is none of INSERT,
\* MODIFY and REMOVE makes no call to the target and is never acked; when its
\* callback has returned it was nacked once and cancel() was called
C40_UnknownEventFails ==
  \A d \in Made :
    UnknownEvent(d) =>
      /\ ~PushCallFor(d)
      /\ acks[d] = 0
      /\ nacks[d] <= 1
      /\ CallbackDone(d) => (nacks[d] = 1 /\ cancels[d] = 1)

\* the same with Stop not called
C40_UnknownEventFailsUnlessStopped == rstop \/ C40_UnknownEventFails
====
